---- MODULE Spec2Model ----
(***************************************************************************)
(* Model of src/ai.py: the command-line chatbot front end (main), and the  *)
(* history codec (save_history / load_history).                            *)
(*                                                                         *)
(* Texts are sequences of one-character strings, so that str.strip,        *)
(* str.lower, the f-string that builds the query and the JSON string       *)
(* escaping are computed rather than assumed.                              *)
(***************************************************************************)
EXTENDS Integers, Sequences, FiniteSets, TLC

\* ------------------------------------------------------------------------
\* Bounds of the model
\* ------------------------------------------------------------------------
\* largest number of lines the interactive loop dispatches in one run
MaxExchanges == 2
\* largest number of turns of a transcript handed to the codec
MaxTurns == 2
\* largest number of parts of one turn handed to the codec
MaxParts == 2

\* ------------------------------------------------------------------------
\* Python string built-ins used by main
\* ------------------------------------------------------------------------
IsSpace(c) == c \in {" ", "\n", "\t"}

RECURSIVE lstrip(_)
lstrip(s) ==
    IF s = <<>> THEN <<>>
    ELSE IF IsSpace(Head(s)) THEN lstrip(Tail(s)) ELSE s

RECURSIVE rstrip(_)
rstrip(s) ==
    IF s = <<>> THEN <<>>
    ELSE IF IsSpace(s[Len(s)]) THEN rstrip(SubSeq(s, 1, Len(s) - 1)) ELSE s

\* str.strip(): f.read().strip(), sys.stdin.read().strip()
strip(s) == rstrip(lstrip(s))

LowerChar(c) ==
    CASE c = "E" -> "e"
      [] c = "X" -> "x"
      [] c = "I" -> "i"
      [] c = "T" -> "t"
      [] c = "Q" -> "q"
      [] c = "U" -> "u"
      [] OTHER   -> c

\* str.lower(): user_input.lower()
lower(s) == [i \in 1..Len(s) |-> LowerChar(s[i])]

\* the list ['exit', 'quit'] of the interactive loop
ExitWords == { <<"e","x","i","t">>, <<"q","u","i","t">> }

\* a variant that leaves the newline out of the f-string
ModifiedQuery_nonewline(prompt_prefix, user_input) ==
    IF prompt_prefix # <<>>
    THEN prompt_prefix \o user_input
    ELSE user_input

\* the query built from the prompt prefix: f"{prompt_prefix}\n{user_input}"
ModifiedQuery(prompt_prefix, user_input) ==
    IF prompt_prefix # <<>>
    THEN prompt_prefix \o <<"\n">> \o user_input
    ELSE user_input

\* ------------------------------------------------------------------------
\* History codec: save_history / load_history
\* ------------------------------------------------------------------------
\* A Content object of the session history: a role and Part objects, each
\* with a text.  A history file is [kind, body]: kind "absent" (no such
\* file), "unreadable" (open() fails with an OSError other than
\* FileNotFoundError), "garbage" (content that is not JSON) or "json" (a JSON
\* list of {"role", "parts"} objects whose strings are kept in their escaped,
\* on-disk form).
Roles == {"user", "model"}

NoFile == [kind |-> "absent", body |-> <<>>]
UnreadableFile == [kind |-> "unreadable", body |-> <<>>]
GarbageFile == [kind |-> "garbage", body |-> <<>>]

\* json.dump of one string: the characters between the quotes
EscapeChar(c) ==
    CASE c = "\"" -> <<"\\", "\"">>
      [] c = "\\" -> <<"\\", "\\">>
      [] c = "\n" -> <<"\\", "n">>
      [] c = "\t" -> <<"\\", "t">>
      [] OTHER    -> <<c>>

RECURSIVE json_encode_str(_)
json_encode_str(s) ==
    IF s = <<>> THEN <<>> ELSE EscapeChar(Head(s)) \o json_encode_str(Tail(s))

\* json.load of one string: [ok, val]; ok is FALSE where the decoder raises
\* JSONDecodeError (a bare quote or control character, a dangling or unknown
\* escape)
RECURSIVE json_decode_str(_)
json_decode_str(e) ==
    IF e = <<>> THEN [ok |-> TRUE, val |-> <<>>]
    ELSE IF Head(e) = "\\"
    THEN IF Len(e) < 2 \/ e[2] \notin {"\"", "\\", "n", "t"}
         THEN [ok |-> FALSE, val |-> <<>>]
         ELSE LET rest == json_decode_str(SubSeq(e, 3, Len(e)))
                  c == CASE e[2] = "n" -> "\n"
                         [] e[2] = "t" -> "\t"
                         [] OTHER -> e[2]
              IN [ok |-> rest.ok, val |-> <<c>> \o rest.val]
    ELSE IF Head(e) \in {"\"", "\n", "\t"}
    THEN [ok |-> FALSE, val |-> <<>>]
    ELSE LET rest == json_decode_str(Tail(e))
         IN [ok |-> rest.ok, val |-> <<Head(e)>> \o rest.val]

\* a variant that keeps only the first part of a message
serializable_message_firstpart(message) ==
    [role |-> message.role,
     parts |-> << message.parts[1].text >>]

\* serializable_history: {"role": message.role, "parts": [part.text ...]}
serializable_message(message) ==
    [role |-> message.role,
     parts |-> [j \in 1..Len(message.parts) |-> message.parts[j].text]]

serializable_history(chat_history) ==
    [i \in 1..Len(chat_history) |-> serializable_message(chat_history[i])]

\* json.dump(serializable_history, f, indent=4)
json_dump(obj) ==
    [kind |-> "json",
     body |-> [i \in 1..Len(obj) |->
                 [role |-> obj[i].role,
                  parts |-> [j \in 1..Len(obj[i].parts) |->
                               json_encode_str(obj[i].parts[j])]]]]

\* save_history(chat_history, file_path): the file afterwards.  io is what
\* the file system does: "ok", "open_fails" (open(file_path, 'w') raises and
\* the file is left as it was) or "write_fails" (the file was truncated by
\* open and the dump did not complete).  Every exception is caught inside
\* save_history.
SaveIO == {"ok", "open_fails", "write_fails"}

save_history(chat_history, file, io) ==
    CASE io = "ok"          -> json_dump(serializable_history(chat_history))
      [] io = "open_fails"  -> file
      [] io = "write_fails" -> GarbageFile

\* content_types.to_content(message) for a {"role", "parts"} dict
to_content(message) ==
    [role |-> message.role,
     parts |-> [j \in 1..Len(message.parts) |-> [text |-> message.parts[j]]]]

\* json.load(f): [exc, obj]
json_load(file) ==
    IF file.kind # "json"
       \/ \E i \in 1..Len(file.body) : \E j \in 1..Len(file.body[i].parts) :
             ~json_decode_str(file.body[i].parts[j]).ok
    THEN [exc |-> "JSONDecodeError", obj |-> <<>>]
    ELSE [exc |-> "none",
          obj |-> [i \in 1..Len(file.body) |->
                     [role |-> file.body[i].role,
                      parts |-> [j \in 1..Len(file.body[i].parts) |->
                                   json_decode_str(file.body[i].parts[j]).val]]]]

\* the try block of load_history: [exc, history]
load_history_try(file) ==
    IF file.kind = "absent" THEN [exc |-> "FileNotFoundError", history |-> <<>>]
    ELSE IF file.kind = "unreadable" THEN [exc |-> "PermissionError", history |-> <<>>]
    ELSE LET r == json_load(file)
         IN IF r.exc # "none" THEN [exc |-> r.exc, history |-> <<>>]
            ELSE [exc |-> "none",
                  history |-> [i \in 1..Len(r.obj) |-> to_content(r.obj[i])]]

\* a variant of load_history that handles FileNotFoundError only
load_history_notfoundonly(file) ==
    LET r == load_history_try(file)
    IN IF r.exc = "none"
       THEN [raised |-> "none", none |-> FALSE, history |-> r.history]
       ELSE IF r.exc = "FileNotFoundError"
       THEN [raised |-> "none", none |-> TRUE, history |-> <<>>]
       ELSE [raised |-> r.exc, none |-> FALSE, history |-> <<>>]

\* load_history(file_path): [raised, none, history].  raised is the exception
\* that leaves the function ("none": it returns); none is TRUE where it
\* returns None.
load_history(file) ==
    LET r == load_history_try(file)
    IN IF r.exc = "none"
       THEN [raised |-> "none", none |-> FALSE, history |-> r.history]
       ELSE IF r.exc = "FileNotFoundError"
       THEN [raised |-> "none", none |-> TRUE, history |-> <<>>]
       ELSE IF r.exc = "JSONDecodeError"
       THEN [raised |-> "none", none |-> TRUE, history |-> <<>>]
       ELSE [raised |-> "none", none |-> TRUE, history |-> <<>>]

\* ------------------------------------------------------------------------
\* The chat session (chat = model.start_chat(...)) as main uses it
\* ------------------------------------------------------------------------
UserTurn(text) == [role |-> "user", parts |-> << [text |-> text] >>]
ModelTurn(text) == [role |-> "model", parts |-> << [text |-> text] >>]

\* what an exchange can come to: the reply arrives, the client raises
\* GoogleAPIError, or anything else raises
Outcomes == {"ok", "GoogleAPIError", "Exception"}

\* a variant in which the user turn stays in the history of a failed request
send_message_dangling(chat_history, query, outcome, reply) ==
    IF query = <<>>
    THEN [exc |-> "ValueError", called |-> FALSE, history |-> chat_history]
    ELSE IF outcome = "ok"
    THEN [exc |-> "none", called |-> TRUE,
          history |-> chat_history \o << UserTurn(query), ModelTurn(reply) >>]
    ELSE [exc |-> outcome, called |-> TRUE,
          history |-> Append(chat_history, UserTurn(query))]

\* chat.send_message(modified_query): [exc, called, history].  An empty
\* content is refused (ValueError) before any request is made; a failed
\* request leaves chat.history as it was; a completed one appends the user
\* turn and the model turn.
send_message(chat_history, query, outcome, reply) ==
    IF query = <<>>
    THEN [exc |-> "ValueError", called |-> FALSE, history |-> chat_history]
    ELSE IF outcome = "ok"
    THEN [exc |-> "none", called |-> TRUE,
          history |-> chat_history \o << UserTurn(query), ModelTurn(reply) >>]
    ELSE [exc |-> outcome, called |-> TRUE, history |-> chat_history]

\* the attributes of the argparse Namespace (the dests of add_argument)
ArgsAttributes ==
    {"api_key", "system_instruction", "system_instruction_file",
     "prompt_prefix", "prompt_prefix_file", "model", "list_models",
     "save_history", "load_history", "verbose", "once", "chat",
     "expression", "file"}

\* evaluating args.<name>: "none", or the exception it raises
GetAttr(name) == IF name \in ArgsAttributes THEN "none" ELSE "AttributeError"

\* ------------------------------------------------------------------------
\* Inputs of the model
\* ------------------------------------------------------------------------
\* raw texts of --prompt-prefix / the prefix file
PrefixTexts == { <<>>, <<"p", " ">> }
\* raw texts of --expression / --file / standard input in one-shot mode
InputTexts == { <<>>, <<" ">>, <<"h", "i">>, <<" ", "h", "i", "\n">> }
\* lines typed in interactive mode (input() drops the newline)
Lines == { <<>>, <<" ">>, <<"h", "i">>, <<"e","x","i","t">>,
           <<"Q","u","i","t">>, <<" ","e","x","i","t">> }
\* texts of the model's replies
Replies == { <<"o", "k">>, <<"\"", "\\">> }
\* a history file written by an earlier run
OldHistory == << UserTurn(<<"h", "i">>), ModelTurn(<<"o", "\n">>) >>
InitialFiles ==
    {NoFile, UnreadableFile, GarbageFile,
     json_dump(serializable_history(OldHistory))}

\* ------------------------------------------------------------------------
\* State
\* ------------------------------------------------------------------------
VARIABLES
    args,           \* the parsed flags main branches on
    pc,             \* where main is
    prompt_prefix,  \* the resolved prompt prefix
    user_input,     \* the user text of the current turn
    history,        \* chat.history
    history0,       \* chat.history when the session was started
    load_result,    \* "unset", "None" or "history": what load_history gave
    file,           \* the history file on disk
    saves,          \* what each call of save_history met: a sequence of SaveIO
    sent,           \* the requests made by chat.send_message, in order
    error,          \* the error main ran into, "none" if none
    exit_status,    \* the exit status of the process once it has ended
    loaded          \* codec runs: what load_history returned

vars == << args, pc, prompt_prefix, user_input, history, history0,
           load_result, file, saves, sent, error, exit_status, loaded >>

NotLoaded == [raised |-> "unset", none |-> FALSE, history |-> <<>>]

Init ==
    /\ args \in [save_history : BOOLEAN, load_history : BOOLEAN,
                 api_key : BOOLEAN, list_models : BOOLEAN, chat : BOOLEAN]
    /\ pc = "flags"
    /\ prompt_prefix = <<>>
    /\ user_input = <<>>
    /\ history = <<>>
    /\ history0 = <<>>
    /\ load_result = "unset"
    /\ file \in InitialFiles
    /\ saves = <<>>
    /\ sent = <<>>
    /\ error = "none"
    /\ exit_status = 0
    /\ loaded = NotLoaded

\* the process has ended
Ended == pc \in {"exited", "Terminated"}

\* main returns (or falls off its end): the interpreter exits with status 0
Return(err) ==
    /\ pc' = "exited"
    /\ error' = err
    /\ exit_status' = 0

\* sys.exit(1)
SysExit(err) ==
    /\ pc' = "exited"
    /\ error' = err
    /\ exit_status' = 1

\* the except clauses that close main's try block: the error is printed on
\* standard error and main falls off its end
Except(exc, endpc) ==
    /\ pc' = endpc
    /\ error' = exc
    /\ exit_status' = 0

\* ------------------------------------------------------------------------
\* main, one action per step
\* ------------------------------------------------------------------------
\* a variant of the first check that lets both flags through
CheckHistoryFlags_nocheck ==
    /\ pc = "flags"
    /\ pc' = "key"
    /\ UNCHANGED << args, prompt_prefix, user_input, history, history0,
                    load_result, file, saves, sent, error, exit_status, loaded >>

\* "if args.save_history and args.load_history: ... return"
CheckHistoryFlags ==
    /\ pc = "flags"
    /\ IF args.save_history /\ args.load_history
       THEN Return("save_and_load")
       ELSE pc' = "key" /\ UNCHANGED << error, exit_status >>
    /\ UNCHANGED << args, prompt_prefix, user_input, history, history0,
                    load_result, file, saves, sent, loaded >>

\* "2. Determine the API Key": "if not api_key: ... return"
DetermineApiKey ==
    /\ pc = "key"
    /\ IF ~args.api_key
       THEN Return("no_api_key")
       ELSE pc' = "list" /\ UNCHANGED << error, exit_status >>
    /\ UNCHANGED << args, prompt_prefix, user_input, history, history0,
                    load_result, file, saves, sent, loaded >>

\* "3. Handle the --list-models flag"
ListModels ==
    /\ pc = "list"
    /\ IF args.list_models
       THEN Return("none")
       ELSE pc' = "sys" /\ UNCHANGED << error, exit_status >>
    /\ UNCHANGED << args, prompt_prefix, user_input, history, history0,
                    load_result, file, saves, sent, loaded >>

\* "4. Determine the System Instruction": src is where it comes from
SystemInstructionSources == {"inline", "file", "file_missing", "default"}

DetermineSystemInstruction ==
    /\ pc = "sys"
    /\ \E src \in SystemInstructionSources :
          IF src = "file_missing"
          THEN SysExit("FileNotFoundError")
          ELSE pc' = "prefix" /\ UNCHANGED << error, exit_status >>
    /\ UNCHANGED << args, prompt_prefix, user_input, history, history0,
                    load_result, file, saves, sent, loaded >>

\* "5. Determine the Appended Rules": the prompt prefix from the flag, the
\* named file, or prompt_prefix.txt when it exists
PrefixSources == {"inline", "file", "file_missing", "default", "no_default"}

DetermineAppendedRules ==
    /\ pc = "prefix"
    /\ \E src \in PrefixSources, raw \in PrefixTexts :
          /\ src = "inline" => raw # <<>>
          /\ src \in {"file_missing", "no_default"} => raw = <<>>
          /\ IF src = "file_missing"
             THEN SysExit("FileNotFoundError") /\ UNCHANGED prompt_prefix
             ELSE /\ prompt_prefix' = CASE src = "inline" -> raw
                                        [] src = "no_default" -> <<>>
                                        [] OTHER -> strip(raw)
                  /\ pc' = "start_chat"
                  /\ UNCHANGED << error, exit_status >>
    /\ UNCHANGED << args, user_input, history, history0,
                    load_result, file, saves, sent, loaded >>

\* model = genai.GenerativeModel(...); "Load chat history if specified";
\* the branch on args.chat
StartChat ==
    /\ pc = "start_chat"
    /\ IF args.load_history
       THEN LET r == load_history(file)
            IN IF r.raised # "none"
               THEN /\ Except(r.raised, "exited")
                    /\ UNCHANGED << history, history0, load_result >>
               ELSE /\ history' = (IF r.none THEN <<>> ELSE r.history)
                    /\ history0' = history'
                    /\ load_result' = (IF r.none THEN "None" ELSE "history")
                    /\ pc' = (IF args.chat THEN "AwaitingInput" ELSE "once_input")
                    /\ UNCHANGED << error, exit_status >>
       ELSE /\ history' = <<>>
            /\ history0' = <<>>
            /\ pc' = (IF args.chat THEN "AwaitingInput" ELSE "once_input")
            /\ UNCHANGED << load_result, error, exit_status >>
    /\ UNCHANGED << args, prompt_prefix, user_input, file, saves, sent, loaded >>

\* "Handle --once mode": the prompt from --expression, --file or standard
\* input; "if not user_input: ... return"
InputSources == {"expression", "file", "file_missing", "stdin"}

OnceReadInput ==
    /\ pc = "once_input"
    /\ \E src \in InputSources, raw \in InputTexts :
          /\ src = "expression" => raw # <<>>
          /\ src = "file_missing" => raw = <<>>
          /\ IF src = "file_missing"
             THEN SysExit("FileNotFoundError") /\ UNCHANGED user_input
             ELSE /\ user_input' = (IF src = "expression" THEN raw ELSE strip(raw))
                  /\ IF user_input' = <<>>
                     THEN Return("no_prompt")
                     ELSE pc' = "once_send" /\ UNCHANGED << error, exit_status >>
    /\ UNCHANGED << args, prompt_prefix, history, history0,
                    load_result, file, saves, sent, loaded >>

\* one-shot mode: the query, chat.send_message, the reply printed, the
\* history saved when --save-history is set, return
OnceSendMessage ==
    /\ pc = "once_send"
    /\ \E outcome \in Outcomes, reply \in Replies, io \in SaveIO :
          LET modified_query == ModifiedQuery(prompt_prefix, user_input)
              r == send_message(history, modified_query, outcome, reply)
          IN /\ outcome # "ok" => reply = <<"o", "k">>
             /\ (r.exc # "none" \/ ~args.save_history) => io = "ok"
             /\ history' = r.history
             /\ sent' = IF r.called
                        THEN Append(sent, [user_input |-> user_input,
                                           query |-> modified_query,
                                           outcome |-> outcome])
                        ELSE sent
             /\ IF r.exc # "none"
                THEN Except(r.exc, "exited") /\ UNCHANGED << file, saves >>
                ELSE /\ IF args.save_history
                        THEN /\ file' = save_history(history', file, io)
                             /\ saves' = Append(saves, io)
                        ELSE UNCHANGED << file, saves >>
                     /\ Return("none")
    /\ UNCHANGED << args, prompt_prefix, user_input, history0, load_result, loaded >>

\* interactive mode, from the prompt to the query: input(), the EOFError
\* handler, the exit words.  The save of both endings evaluates args.stderr
\* for its verbose argument before save_history is called.
ChatReadInput ==
    /\ pc = "AwaitingInput"
    /\ \E eof \in BOOLEAN, line \in Lines :
          /\ eof => line = <<>>
          /\ IF eof \/ lower(line) \in ExitWords
             THEN /\ IF args.save_history /\ GetAttr("stderr") # "none"
                     THEN Except(GetAttr("stderr"), "Terminated")
                     ELSE Except("none", "Terminated")
                  /\ IF args.save_history /\ GetAttr("stderr") = "none"
                     THEN \E io \in SaveIO :
                             /\ file' = save_history(history, file, io)
                             /\ saves' = Append(saves, io)
                     ELSE UNCHANGED << file, saves >>
                  /\ UNCHANGED user_input
             ELSE /\ Len(sent) < MaxExchanges
                  /\ user_input' = line
                  /\ pc' = "Dispatching"
                  /\ UNCHANGED << file, saves, error, exit_status >>
    /\ UNCHANGED << args, prompt_prefix, history, history0, load_result,
                    sent, loaded >>

\* interactive mode, the exchange: chat.send_message, the reply printed, the
\* "Save history after each turn if enabled" (args.stderr again), and back
\* to the prompt.  An exception leaves the while loop for main's except
\* clauses.
ChatSendMessage ==
    /\ pc = "Dispatching"
    /\ \E outcome \in Outcomes, reply \in Replies :
          LET modified_query == ModifiedQuery(prompt_prefix, user_input)
              r == send_message(history, modified_query, outcome, reply)
          IN /\ outcome # "ok" => reply = <<"o", "k">>
             /\ history' = r.history
             /\ sent' = IF r.called
                        THEN Append(sent, [user_input |-> user_input,
                                           query |-> modified_query,
                                           outcome |-> outcome])
                        ELSE sent
             /\ IF r.exc # "none"
                THEN Except(r.exc, "Terminated") /\ UNCHANGED << file, saves >>
                ELSE IF args.save_history /\ GetAttr("stderr") # "none"
                THEN Except(GetAttr("stderr"), "Terminated")
                     /\ UNCHANGED << file, saves >>
                ELSE /\ IF args.save_history
                        THEN \E io \in SaveIO :
                                /\ file' = save_history(history', file, io)
                                /\ saves' = Append(saves, io)
                        ELSE UNCHANGED << file, saves >>
                     /\ pc' = "AwaitingInput"
                     /\ UNCHANGED << error, exit_status >>
    /\ UNCHANGED << args, prompt_prefix, user_input, history0, load_result, loaded >>

Next ==
    \/ CheckHistoryFlags
    \/ DetermineApiKey
    \/ ListModels
    \/ DetermineSystemInstruction
    \/ DetermineAppendedRules
    \/ StartChat
    \/ OnceReadInput
    \/ OnceSendMessage
    \/ ChatReadInput
    \/ ChatSendMessage

Spec == Init /\ [][Next]_vars

\* ------------------------------------------------------------------------
\* The codec on its own: a transcript is saved, then loaded
\* ------------------------------------------------------------------------
\* texts of the parts: one with a quote and a newline, one that spells the
\* escape of a newline
CodecTexts == { <<"a", "\"", "\n">>, <<"\\", "n">> }

SeqsUpTo(S, lo, hi) == UNION { [1..n -> S] : n \in lo..hi }

CodecParts == SeqsUpTo([text : CodecTexts], 1, MaxParts)
CodecTurns == [role : Roles, parts : CodecParts]
Transcripts == SeqsUpTo(CodecTurns, 0, MaxTurns)

CodecInit ==
    /\ args = [save_history |-> TRUE, load_history |-> FALSE,
               api_key |-> TRUE, list_models |-> FALSE, chat |-> FALSE]
    /\ pc = "codec_save"
    /\ prompt_prefix = <<>>
    /\ user_input = <<>>
    /\ history \in Transcripts
    /\ history0 = <<>>
    /\ load_result = "unset"
    /\ file \in {NoFile, json_dump(serializable_history(OldHistory))}
    /\ saves = <<>>
    /\ sent = <<>>
    /\ error = "none"
    /\ exit_status = 0
    /\ loaded = NotLoaded

\* save_history(history, path)
CodecSave ==
    /\ pc = "codec_save"
    /\ \E io \in SaveIO :
          /\ file' = save_history(history, file, io)
          /\ saves' = Append(saves, io)
    /\ pc' = "codec_load"
    /\ UNCHANGED << args, prompt_prefix, user_input, history, history0,
                    load_result, sent, error, exit_status, loaded >>

\* load_history(path)
CodecLoad ==
    /\ pc = "codec_load"
    /\ loaded' = load_history(file)
    /\ pc' = "codec_done"
    /\ UNCHANGED << args, prompt_prefix, user_input, history, history0,
                    load_result, file, saves, sent, error, exit_status >>

CodecNext == CodecSave \/ CodecLoad

SpecCodec == CodecInit /\ [][CodecNext]_vars

\* ------------------------------------------------------------------------
\* Properties
\* ------------------------------------------------------------------------
\* C1: in interactive mode a failed exchange (API error or unexpected error)
\* is reported and the loop goes back to AwaitingInput; it never moves the
\* loop to Terminated.
C1_FailedExchangeReturnsToPrompt ==
    [][ ( /\ pc = "Dispatching"
          /\ Len(sent') = Len(sent) + 1
          /\ sent'[Len(sent')].outcome # "ok" )
        => pc' = "AwaitingInput" ]_vars

\* C2: in interactive mode with --save-history, every successful exchange is
\* followed by a save of the history (the file then holds the transcript with
\* that exchange, whenever the write goes through) and the loop goes on to
\* read the next line.
C2_SaveAfterEverySuccessfulExchange ==
    [][ ( /\ pc = "Dispatching"
          /\ args.save_history
          /\ Len(sent') = Len(sent) + 1
          /\ sent'[Len(sent')].outcome = "ok" )
        => ( /\ pc' = "AwaitingInput"
             /\ Len(saves') = Len(saves) + 1
             /\ saves'[Len(saves')] = "ok"
                  => file' = json_dump(serializable_history(history')) ) ]_vars

\* C3: in interactive mode no request is made for a line that, trimmed and
\* lower-cased, is "exit" or "quit".
C3_ExitWordNeverSent ==
    args.chat =>
        \A i \in 1..Len(sent) :
            strip(lower(sent[i].user_input)) \notin ExitWords

\* C4: in either mode no request is made for a user text that is empty after
\* trimming.
C4_EmptyTextNeverSent ==
    \A i \in 1..Len(sent) : strip(sent[i].user_input) # <<>>

\* C5: a run that hits a fatal error (both history flags, no credential, a
\* named file that does not exist, an API error in one-shot mode) never ends
\* with exit status 0.
FatalError ==
    \/ error \in {"save_and_load", "no_api_key", "FileNotFoundError"}
    \/ ~args.chat /\ error = "GoogleAPIError"

C5_FatalErrorExitsNonZero ==
    (Ended /\ FatalError) => exit_status # 0

\* C6: a transcript of text parts that was saved is loaded back with the same
\* length and the same ordered (role, parts).
RoleParts(h) ==
    [i \in 1..Len(h) |->
       << h[i].role, [j \in 1..Len(h[i].parts) |-> h[i].parts[j].text] >>]

C6_RoundTrip ==
    (pc = "codec_done" /\ saves = << "ok" >>) =>
        /\ loaded.raised = "none"
        /\ ~loaded.none
        /\ Len(loaded.history) = Len(history)
        /\ RoleParts(loaded.history) = RoleParts(history)

C6_Witness ==
    /\ pc = "codec_done"
    /\ saves = << "ok" >>
    /\ Len(history) = 2
    /\ history[1].role = "user" /\ history[2].role = "model"
    /\ Len(history[1].parts) = 2
    /\ history[1].parts[2].text = << "\\", "n" >>
    /\ history[2].parts[1].text = << "a", "\"", "\n" >>

\* C7: when the history file is absent, undecodable or unreadable,
\* load_history returns None instead of raising, the session starts with an
\* empty transcript and main goes on to the exchange.
C7_LoadFailureStartsFresh ==
    [][ ( /\ pc = "start_chat"
          /\ args.load_history
          /\ file.kind \in {"absent", "garbage", "unreadable"} )
        => ( /\ load_result' = "None"
             /\ history' = <<>>
             /\ error' = "none"
             /\ pc' = (IF args.chat THEN "AwaitingInput" ELSE "once_input") ) ]_vars

C7_Witness ==
    /\ args.load_history
    /\ file.kind = "garbage"
    /\ load_result = "None"
    /\ history0 = <<>>
    /\ Len(sent) = 1
    /\ sent[1].outcome = "ok"
    /\ Len(history) = 2

\* C8: the transcript is the transcript the session started with followed by
\* one user turn and one model turn for each successful exchange, in order;
\* a failed exchange adds nothing, and a saved history file is such a
\* transcript too.
OkSent == SelectSeq(sent, LAMBDA e : e.outcome = "ok")

C8_TranscriptGrowsByPairs ==
    /\ Len(history) = Len(history0) + 2 * Len(OkSent)
    /\ SubSeq(history, 1, Len(history0)) = history0
    /\ \A i \in 1..Len(OkSent) :
          /\ history[Len(history0) + 2 * i - 1] = UserTurn(OkSent[i].query)
          /\ history[Len(history0) + 2 * i].role = "model"
    /\ (Len(saves) > 0 /\ saves[Len(saves)] = "ok")
          => file = json_dump(serializable_history(history))

C8_Witness ==
    /\ Len(sent) = 2
    /\ sent[1].outcome = "ok"
    /\ sent[2].outcome = "GoogleAPIError"
    /\ history0 # <<>>
    /\ Len(history) = Len(history0) + 2

\* C9: every text sent is the prefix, a newline and the user text when the
\* prefix is not empty, and the user text alone when it is.
C9_PrefixApplied ==
    \A i \in 1..Len(sent) :
        /\ prompt_prefix # <<>> =>
              sent[i].query = prompt_prefix \o << "\n" >> \o sent[i].user_input
        /\ prompt_prefix = <<>> => sent[i].query = sent[i].user_input

C9_Witness ==
    /\ args.chat
    /\ prompt_prefix = << "p", " " >>
    /\ Len(sent) = 2
    /\ sent[2].user_input = << "h", "i" >>

\* C10: one-shot mode with --save-history: after a successful exchange whose
\* save went through, the history file holds exactly the user turn and the
\* model turn of that exchange, in that order; nothing was loaded.
C10_OnceSavesTwoTurns ==
    ( /\ ~args.chat
      /\ args.save_history
      /\ pc = "exited"
      /\ Len(sent) = 1
      /\ sent[1].outcome = "ok"
      /\ saves = << "ok" >> )
    => ( /\ load_result = "unset"
         /\ file.kind = "json"
         /\ Len(file.body) = 2
         /\ file.body[1].role = "user"
         /\ file.body[1].parts = << json_encode_str(sent[1].query) >>
         /\ file.body[2].role = "model"
         /\ Len(file.body[2].parts) = 1 )

C10_Witness ==
    /\ ~args.chat
    /\ args.save_history
    /\ pc = "exited"
    /\ Len(sent) = 1
    /\ sent[1].outcome = "ok"
    /\ saves = << "ok" >>
    /\ prompt_prefix # <<>>

====
